---- MODULE Spec2Model ----
(***************************************************************************)
(* Delta addressing (lib/streamlit/DeltaGenerator.py) and the dual-queue   *)
(* session record (lib/streamlit/Report.py) of Streamlit.                  *)
(*                                                                         *)
(* Spec        : the script thread driving DeltaGenerator handles against  *)
(*               a sink that accepts or rejects each envelope.             *)
(* SessionSpec : the script thread calling Report.enqueue / Report.clear   *)
(*               while the server's delivery task calls                    *)
(*               Report.flush_browser_queue.                               *)
(* ExportSpec  : Report.serialize_final_report_to_files applied to a       *)
(*               master queue, and serialize_running_report_to_files.      *)
(* WidgetSpec  : the script thread calling widget methods over reruns,     *)
(*               with the remote side submitting widget values.            *)
(***************************************************************************)
EXTENDS Integers, Sequences, FiniteSets, TLC

\* ---------------------------------------------------------------- bounds
\* Largest value a handle's id counter takes.
MaxId == 3
\* Number of DeltaGenerator objects the script holds at once.
MaxHandles == 3
\* The handles the script holds in the behaviours of NestSpec.
MaxNestHandles == 5
\* The calls through one handle that may advance its counter in NestSpec.
MaxNestId == 1
\* Number of Report.enqueue calls in one behaviour of SessionSpec.
MaxEnqueues == 3
\* Length of the master queue that ExportSpec serializes.
MaxMaster == 4
MaxNow == 3

\* ------------------------------------------------------------- vocabulary
MAIN == "MAIN"
SIDEBAR == "SIDEBAR"
Containers == {MAIN, SIDEBAR}

\* Python's None, and the NoValue class of DeltaGenerator.py.
None == "None"
NoValue == "NoValue"

\* The sink of a handle: a callable, or None for a "null" delta generator.
SINK == "sink"

\* The payload the generator's callers leave; the generator never looks at it.
Payloads == {"text"}

\* What a marshaller returns: nothing, the NoValue class, or a widget value.
MarshallReturns == {None, NoValue, "value"}

\* A marshaller that raises instead (a widget without label, a value out of range).
Raises == "raises"
MarshallOutcomes == MarshallReturns \cup {Raises}

VARIABLES
    dgs,      \* the DeltaGenerator objects the script holds, by handle number
    origin,   \* per handle: the call that returned it (history)
    run,      \* per handle: number of calls that reached the sink since its counter was last 0 (history)
    accepting,\* the sink has accepted every envelope so far (history)
    touched,  \* per handle: a new_element/_block call on it has reached the sink (history)
    last,     \* outcome of the most recent generator call
    appended, \* the new_element/_block envelopes the sink has accepted since the last _reset; kept in the behaviours of NestSpec (history)
    span,     \* the delta_ids sent through the top-level root and its longest run so far (history)
    master,   \* Report._master_queue
    browser,  \* Report._browser_queue
    pc,       \* where the script thread stands inside Report.enqueue
    pending,  \* the envelope of the Report.enqueue call in progress
    delivered,\* the results of flush_browser_queue so far, concatenated (history)
    log,      \* the envelopes of the completed Report.enqueue calls, in call order (history)
    cleared,  \* Report.clear has been called (history)
    mslot,    \* per envelope serial: the serial whose place in the master queue it took (history)
    bslot,    \* the same for the browser queue (history)
    exported, \* the result of the serialize_*_report_to_files call just made
    report_id,\* Report.report_id
    config,   \* the configuration options Report reads
    ctx,      \* the report context of the script thread: widget values and run number
    wlast,    \* the most recent widget call
    call,     \* the most recent call of a widget body or of _print_url: arguments and outcome
    boot,     \* bootstrap: the server, the io loop's clock and timer, and the browsers opened
    wprev     \* the latest widget call before it that got an id: method, label, id, handle and run (history)

gvars == <<dgs, origin, run, accepting, touched, last, span, appended>>
svars == <<master, browser, pc, pending, delivered, log, cleared, mslot, bslot>>
rvars == <<report_id, config>>
wvars == <<ctx, wlast, wprev>>
cvars == <<call>>
bvars == <<boot>>
vars == <<gvars, svars, exported, rvars, wvars, cvars, bvars>>

\* ------------------------------------------------------- DeltaGenerator
\* DeltaGenerator.__init__: the five fields of a handle.
DeltaGenerator(enqueue, id, is_root, container, path) ==
    [enqueue |-> enqueue, id |-> id, is_root |-> is_root,
     container |-> container, path |-> path]

\* The address an envelope carries in msg.metadata.
Address(msg) == [container |-> msg.container, path |-> msg.path, delta_id |-> msg.delta_id]

\* "Null" delta generators, those without queues (lines 260, 285, 2104).
IsNullNever(dg) == FALSE
IsNull(dg) == dg.enqueue = None

\* _enqueue_new_element_delta, lines 249-253: the NewElement envelope.
NewElementMsg(dg, element) ==
    [type |-> "delta", delta |-> "new_element", element |-> element,
     name |-> "", has_name |-> FALSE,
     container |-> dg.container, path |-> dg.path, delta_id |-> dg.id]

\* _enqueue_new_element_delta, lines 264-269: the handle for the new element.
OutputDg(dg, msg) ==
    IF dg.is_root
    THEN DeltaGenerator(dg.enqueue, msg.delta_id, FALSE, MAIN, <<>>)
    ELSE dg

\* _enqueue_new_element_delta, line 250: an exception of the marshaller leaves
\* the call before any field of the handle is assigned.
AfterRaiseCounts(dg) == IF dg.is_root /\ dg.id < MaxId THEN [dg EXCEPT !.id = @ + 1] ELSE dg
AfterRaise(dg) == dg

\* _enqueue_new_element_delta, lines 276-280: the issuing handle afterwards.
AfterNewElementNoIncrement(dg, msg_was_enqueued) == dg

AfterNewElementAlways(dg, msg_was_enqueued) ==
    IF dg.is_root THEN [dg EXCEPT !.id = @ + 1] ELSE dg

AfterNewElement(dg, msg_was_enqueued) ==
    IF msg_was_enqueued /\ dg.is_root THEN [dg EXCEPT !.id = @ + 1] ELSE dg

\* value_or_dg, lines 236-245.
value_or_dgKeepsSentinel(value, dg) ==
    IF value = None THEN [kind |-> "dg", dg |-> dg, value |-> None]
    ELSE [kind |-> "value", dg |-> None, value |-> value]

value_or_dg(value, dg) ==
    IF value = NoValue THEN [kind |-> None, dg |-> None, value |-> None]
    ELSE IF value = None THEN [kind |-> "dg", dg |-> dg, value |-> None]
    ELSE [kind |-> "value", dg |-> None, value |-> value]

\* _block, lines 288-292: the NewBlock envelope.
BlockMsg(dg) ==
    [type |-> "delta", delta |-> "new_block", element |-> None,
     name |-> "", has_name |-> FALSE,
     container |-> dg.container, path |-> dg.path, delta_id |-> dg.id]

\* _block, lines 294-300: the handle of the nested stream.
NewBlockDgSamePath(dg) ==
    DeltaGenerator(dg.enqueue, 0, TRUE, dg.container, dg.path)

NewBlockDg(dg) ==
    DeltaGenerator(dg.enqueue, 0, TRUE, dg.container, Append(dg.path, dg.id))

\* _block, line 303: the issuing handle afterwards.
AfterBlock(dg) == [dg EXCEPT !.id = @ + 1]

\* add_rows, lines 2124-2133: the AddRows envelope.
AddRowsMsg(dg, name) ==
    [type |-> "delta", delta |-> "add_rows", element |-> "data",
     name |-> name, has_name |-> (name /= ""),
     container |-> dg.container, path |-> dg.path, delta_id |-> dg.id]

\* add_rows, lines 2111-2122: the dataset name chosen from (data, **kwargs);
\* "error" stands for the RuntimeError of the last branch.
AddRowsNameDefaulted(data, kwargs) ==
    IF Cardinality(kwargs) = 0 THEN ""
    ELSE IF Cardinality(kwargs) = 1 THEN CHOOSE n \in kwargs : TRUE
    ELSE "error"

AddRowsNamePositionalOnly(data, kwargs) ==
    IF data /= None /\ Cardinality(kwargs) = 0 THEN ""
    ELSE IF Cardinality(kwargs) = 1 THEN ""
    ELSE "error"

AddRowsName(data, kwargs) ==
    IF data /= None /\ Cardinality(kwargs) = 0 THEN ""
    ELSE IF Cardinality(kwargs) = 1 THEN CHOOSE n \in kwargs : TRUE
    ELSE "error"

\* add_rows, line 2107: assert not self._is_root.
AssertNotRootSkipped(dg) == TRUE
AssertNotRoot(dg) == ~dg.is_root

\* add_rows, lines 2107-2122: the assertion comes before the arity check.
AddRowsErrorArityFirst(dg, name) ==
    IF name = "error" THEN "RuntimeError"
    ELSE IF ~AssertNotRoot(dg) THEN "AssertionError"
    ELSE ""

AddRowsError(dg, name) ==
    IF ~AssertNotRoot(dg) THEN "AssertionError"
    ELSE IF name = "error" THEN "RuntimeError"
    ELSE ""

\* The datasets a call add_rows(data, **kwargs) passes, positional and named.
NumDatasets(data, kwargs) == (IF data /= None THEN 1 ELSE 0) + Cardinality(kwargs)

\* ----------------------------------------------------------------- state
NoMsg ==
    [type |-> None, delta |-> None, element |-> None, name |-> "", has_name |-> FALSE,
     container |-> MAIN, path |-> <<>>, delta_id |-> 0]

Handles == 1..Len(dgs)

Returned(kind, h) == [kind |-> kind, dg |-> h]

\* value_or_dg applied to a handle number.
ValueOrHandle(rv, h) == Returned(value_or_dg(rv, h).kind, IF rv = None THEN h ELSE 0)

\* Outcome of a call on handle i: the envelope handed to the sink (handed = FALSE
\* when none was), the sink's answer, the value returned to the script and the
\* error raised ("" when none); first tells that no earlier new_element/_block
\* call on the handle had reached the sink; args are the arguments an add_rows
\* call was given, rv what the marshaller of a new_element call returned, value
\* the marshaller's value when that is what the script got back, name and
\* message the attribute looked up and the text of the AttributeError.
NoArgs == [data |-> None, kwargs |-> {}]

Outcome(op, i, msg, handed, was_enqueued, ret, error) ==
    [op |-> op, dg |-> i, msg |-> msg, handed |-> handed,
     was_enqueued |-> was_enqueued, ret |-> ret, error |-> error,
     first |-> handed /\ ~touched[i], args |-> NoArgs,
     rv |-> None, value |-> None, name |-> "", message |-> ""]

Origin(kind, parent, msg) == [kind |-> kind, parent |-> parent, address |-> Address(msg)]

\* History: the delta_ids that went through the top-level root, over all its runs,
\* and the length of its longest run; kept only while the sink has accepted
\* everything.
NoSpan == [used |-> {}, longest |-> 0]

SpanAfter(i, was_enqueued) ==
    IF ~(accepting /\ was_enqueued) THEN NoSpan
    ELSE IF origin[i].kind = "top"
    THEN [used |-> span.used \cup {dgs[i].id},
          longest |-> IF run[i] + 1 > span.longest THEN run[i] + 1 ELSE span.longest]
    ELSE span

\* History: one more call on handle i reached the sink, which answered was_enqueued.
\* The per-handle counts are kept only while the sink has accepted everything.
Counted(i, was_enqueued, fresh) ==
    LET r == IF accepting /\ was_enqueued
             THEN [run EXCEPT ![i] = @ + 1]
             ELSE [h \in Handles |-> 0]
    IN /\ accepting' = (accepting /\ was_enqueued)
       /\ span' = SpanAfter(i, was_enqueued)
       /\ run' = IF fresh THEN Append(r, 0) ELSE r
       /\ touched' = IF fresh THEN Append([touched EXCEPT ![i] = TRUE], FALSE)
                              ELSE [touched EXCEPT ![i] = TRUE]

\* History: msg, which handle dg handed to the sink and the sink accepted, is
\* one more envelope appended.
NoAppended == [on |-> FALSE, at |-> {}]

AppendedAfter(dg, msg, was_enqueued) ==
    IF appended.on /\ was_enqueued
    THEN [appended EXCEPT !.at = @ \cup {[address |-> Address(msg), delta |-> msg.delta,
                                          root |-> dg.is_root]}]
    ELSE appended

\* The handles the script holds at most.
HandleLimit == IF appended.on THEN MaxNestHandles ELSE MaxHandles

\* The handles that exist before the script runs: the top-level root of the
\* container the script draws in (DeltaGenerator(enqueue, container=c)) and the
\* null generator, DeltaGenerator(None).
HandlesInit ==
    /\ \E c \in Containers :
          dgs = << DeltaGenerator(SINK, 0, TRUE, c, <<>>),
                   DeltaGenerator(None, 0, TRUE, MAIN, <<>>) >>
    /\ origin = [i \in 1..2 |-> Origin("top", 0, NoMsg)]
    /\ run = [i \in 1..2 |-> 0]
    /\ accepting = TRUE
    /\ touched = [i \in 1..2 |-> FALSE]
    /\ span = NoSpan
    /\ last = [op |-> "init", dg |-> 1, msg |-> NoMsg, handed |-> FALSE, was_enqueued |-> FALSE,
               ret |-> Returned(None, 0), error |-> "", first |-> FALSE, args |-> NoArgs,
               rv |-> None, value |-> None, name |-> "", message |-> ""]

GeneratorInit == HandlesInit /\ appended = NoAppended

\* ---------------------------------------------------------------- actions
\* DeltaGenerator._enqueue_new_element_delta on handle i: the marshaller leaves
\* `element` in the payload and returns rv, or raises (line 250, before anything
\* else is looked at); the sink answers msg_was_enqueued; the script keeps the
\* handle it is returned, or drops it.  A widget operation is this call with a
\* marshaller that returns the widget's value or NoValue, or raises.
EnqueueNewElementDelta(i, element, rv, msg_was_enqueued, keep) ==
    LET dg == dgs[i]
        msg == NewElementMsg(dg, element)
        output_dg == OutputDg(dg, msg)
        \* a new handle reaches the script only through value_or_dg(rv, output_dg)
        fresh == dg.is_root /\ msg_was_enqueued /\ rv = None /\ keep
        out == IF dg.is_root THEN Len(dgs) + 1 ELSE i
        Called(m, handed, ok, ret, error) ==
            [Outcome("new_element", i, m, handed, ok, ret, error)
                EXCEPT !.rv = rv,
                       !.value = IF error = "" THEN value_or_dg(rv, i).value ELSE None]
    IN IF rv = Raises
       THEN /\ last' = Called(NoMsg, FALSE, FALSE, Returned(None, 0), "Exception")
            /\ dgs' = [dgs EXCEPT ![i] = AfterRaise(dg)]
            /\ UNCHANGED <<origin, run, accepting, touched, span, appended>>
       ELSE IF IsNull(dg)
       THEN /\ last' = Called(NoMsg, FALSE, FALSE, ValueOrHandle(rv, i), "")
            /\ UNCHANGED <<dgs, origin, run, accepting, touched, span, appended>>
       ELSE /\ AfterNewElement(dg, msg_was_enqueued).id <= MaxId
            /\ fresh => Len(dgs) < HandleLimit
            /\ dgs' = IF fresh
                      THEN Append([dgs EXCEPT ![i] = AfterNewElement(dg, msg_was_enqueued)], output_dg)
                      ELSE [dgs EXCEPT ![i] = AfterNewElement(dg, msg_was_enqueued)]
            /\ origin' = IF fresh THEN Append(origin, Origin("element", i, msg)) ELSE origin
            /\ IF dg.is_root
               THEN Counted(i, msg_was_enqueued, fresh)
               ELSE /\ accepting' = (accepting /\ msg_was_enqueued)
                    /\ span' = IF accepting /\ msg_was_enqueued THEN span ELSE NoSpan
                    /\ touched' = [touched EXCEPT ![i] = TRUE]
                    /\ UNCHANGED run
            /\ appended' = AppendedAfter(dg, msg, msg_was_enqueued)
            /\ last' = Called(msg, TRUE, msg_was_enqueued,
                              IF ~msg_was_enqueued THEN ValueOrHandle(rv, i)
                              ELSE IF dg.is_root /\ ~fresh THEN ValueOrHandle(rv, 0)
                              ELSE ValueOrHandle(rv, out), "")

\* DeltaGenerator._block on handle i; the sink's answer is not looked at; the
\* script keeps the handle it is returned, or drops it.
Block(i, msg_was_enqueued, keep) ==
    LET dg == dgs[i]
        msg == BlockMsg(dg)
        new_block_dg == NewBlockDg(dg)
    IN IF IsNull(dg)
       THEN /\ last' = Outcome("block", i, NoMsg, FALSE, FALSE, Returned("dg", i), "")
            /\ UNCHANGED <<dgs, origin, run, accepting, touched, span, appended>>
       ELSE /\ AfterBlock(dg).id <= MaxId
            /\ keep => Len(dgs) < HandleLimit
            /\ dgs' = IF keep
                      THEN Append([dgs EXCEPT ![i] = AfterBlock(dg)], new_block_dg)
                      ELSE [dgs EXCEPT ![i] = AfterBlock(dg)]
            /\ origin' = IF keep THEN Append(origin, Origin("block", i, msg)) ELSE origin
            /\ Counted(i, msg_was_enqueued, keep)
            /\ appended' = AppendedAfter(dg, msg, msg_was_enqueued)
            /\ last' = Outcome("block", i, msg, TRUE, msg_was_enqueued,
                               Returned("dg", IF keep THEN Len(dgs) + 1 ELSE 0), "")

\* DeltaGenerator.add_rows(data, **kwargs) on handle i.
DataArgs == {None, "df"}
DatasetNames == {"n1", "n2"}

AddRows(i, data, kwargs, msg_was_enqueued) ==
    LET dg == dgs[i]
        name == AddRowsName(data, kwargs)
        msg == AddRowsMsg(dg, name)
        Called(m, handed, ok, ret, error) ==
            [Outcome("add_rows", i, m, handed, ok, ret, error)
                EXCEPT !.args = [data |-> data, kwargs |-> kwargs]]
    IN /\ UNCHANGED <<dgs, origin, run, touched, appended>>
       /\ IF IsNull(dg)
          THEN /\ last' = Called(NoMsg, FALSE, FALSE, Returned("dg", i), "")
               /\ UNCHANGED <<accepting, span>>
          ELSE IF AddRowsError(dg, name) /= ""
          THEN /\ last' = Called(NoMsg, FALSE, FALSE, Returned(None, 0), AddRowsError(dg, name))
               /\ UNCHANGED <<accepting, span>>
          ELSE /\ last' = Called(msg, TRUE, msg_was_enqueued, Returned("dg", i), "")
               /\ accepting' = (accepting /\ msg_was_enqueued)
               /\ span' = IF accepting /\ msg_was_enqueued THEN span ELSE NoSpan

\* _reset, line 212.
AfterResetKeepsId(dg) == dg
AfterReset(dg) == [dg EXCEPT !.id = 0]

\* DeltaGenerator._reset on handle i.
Reset(i) ==
    LET dg == dgs[i]
    IN IF ~dg.is_root
       THEN /\ last' = Outcome("reset", i, NoMsg, FALSE, FALSE, Returned(None, 0), "AssertionError")
            /\ UNCHANGED <<dgs, origin, run, accepting, touched, span, appended>>
       ELSE /\ dgs' = [dgs EXCEPT ![i] = AfterReset(dg)]
            /\ run' = [run EXCEPT ![i] = 0]
            /\ last' = Outcome("reset", i, NoMsg, FALSE, FALSE, Returned(None, 0), "")
            /\ appended' = [appended EXCEPT !.at = {}]
            /\ UNCHANGED <<origin, accepting, touched, span>>

\* The attribute names the script looks up on a handle that DeltaGenerator does
\* not define, and those among them that are callables of the streamlit module
\* (__getattr__, lines 183-184).
AttrNames == {"write", "foo"}
streamlit_methods == {"write"}

\* __getattr__, lines 187-202: the text of the AttributeError, its backquotes
\* written as apostrophes.
MessageGenericOnly(dg, name) ==
    IF name \in streamlit_methods
    THEN "Method '" \o name \o "()' does not exist for 'DeltaGenerator' objects. Did you mean 'st." \o name \o "()'?"
    ELSE "'" \o name \o "()' is not a valid Streamlit command."

Message(dg, name) ==
    IF name \in streamlit_methods
    THEN IF dg.container = SIDEBAR
         THEN "Method '" \o name \o "()' does not exist for 'st.sidebar'. Did you mean 'st." \o name \o "()'?"
         ELSE "Method '" \o name \o "()' does not exist for 'DeltaGenerator' objects. Did you mean 'st." \o name \o "()'?"
    ELSE "'" \o name \o "()' is not a valid Streamlit command."

\* Looking up name on handle i and calling what __getattr__ returned.
GetAttr(i, name) ==
    /\ last' = [Outcome("getattr", i, NoMsg, FALSE, FALSE, Returned(None, 0), "AttributeError")
                   EXCEPT !.name = name, !.message = Message(dgs[i], name)]
    /\ UNCHANGED <<dgs, origin, run, accepting, touched, span, appended>>

GeneratorNext ==
    \/ \E i \in Handles, element \in Payloads, rv \in MarshallOutcomes, ok, keep \in BOOLEAN :
          EnqueueNewElementDelta(i, element, rv, ok, keep)
    \/ \E i \in Handles, ok, keep \in BOOLEAN : Block(i, ok, keep)
    \/ \E i \in Handles, data \in DataArgs, kwargs \in SUBSET DatasetNames, ok \in BOOLEAN :
          AddRows(i, data, kwargs, ok)
    \/ \E i \in Handles : Reset(i)
    \/ \E i \in Handles, name \in AttrNames : GetAttr(i, name)

\* ---------------------------------------------------------------- widgets
\* The runs of the script in one behaviour of WidgetSpec.
MaxRuns == 2
\* The entries of the widget store.
MaxWidgets == 1

\* Python values: None, booleans and strings.
PyNone == [t |-> "NoneType", v |-> "None"]
PyTrue == [t |-> "bool", v |-> "True"]
PyFalse == [t |-> "bool", v |-> "False"]
PyStr(v) == [t |-> "str", v |-> v]

\* bool(x) and str(x).
bool(x) == IF x \in {PyNone, PyFalse, PyStr("")} THEN PyFalse ELSE PyTrue
str(x) == PyStr(x.v)

\* The widgets of DeltaGenerator the script calls, by method.__name__.
WidgetMethods == {"button", "checkbox", "text_input", "radio"}

\* The options the script passes radio, the first of them None, and an index
\* into them.
RadioOptions == <<PyNone, PyStr("a")>>
PyIndexOf(k) == [t |-> "int", v |-> ToString(k)]

\* Labels the script passes.
Labels == {"Go", "input-Go"}

\* The `value` argument the script passes.
WidgetDefaults(method) ==
    IF method = "button" THEN {PyNone}
    ELSE IF method = "checkbox" THEN {PyFalse, PyTrue}
    ELSE IF method = "radio" THEN {PyIndexOf(0)}
    ELSE {PyStr("a")}

\* What the remote side submits for a widget of each kind.
UiValues(method) ==
    IF method \in {"button", "checkbox"} THEN {PyTrue, PyFalse}
    ELSE IF method = "radio" THEN {PyIndexOf(1)}
    ELSE {PyStr("b")}

\* _widget, line 132: widget_id = "%s-%s" % (method.__name__, label).
WidgetIdLabelOnly(method, label) == label
WidgetId(method, label) == method \o "-" \o label

\* ctx.widgets.get_widget_value(widget_id): the stored value, None without one.
GetWidgetValueNever(widgets, widget_id) == PyNone
GetWidgetValue(widgets, widget_id) ==
    IF widget_id \in DOMAIN widgets THEN widgets[widget_id] ELSE PyNone

\* The bodies of button (lines 1325-1328), checkbox (1354-1358),
\* text_input (1673-1677) and radio (1443-1448): the value they return.
WidgetReturn(method, ui_value, value) ==
    LET current_value == IF ui_value /= PyNone THEN ui_value ELSE value
    IN IF method = "button" THEN (IF ui_value /= PyNone THEN ui_value ELSE PyFalse)
       ELSE IF method = "checkbox" THEN bool(current_value)
       ELSE IF method = "radio"
       THEN (IF current_value = PyIndexOf(0) THEN RadioOptions[1] ELSE RadioOptions[2])
       ELSE str(current_value)

\* What marshall_element hands _enqueue_new_element_delta for a widget that
\* returned ret (lines 102-105).
MarshallReturn(ret) == IF ret = PyNone THEN None ELSE "value"

\* What the script gets from a widget call that returned ret, after value_or_dg:
\* ret itself, or a handle, the issuing one or a new leaf-bound one.
Received(outcome, ret, i) ==
    IF outcome.ret.kind = "value" THEN ret
    ELSE IF outcome.ret.kind = "dg"
    THEN [t |-> "DeltaGenerator", v |-> IF outcome.ret.dg = i THEN "self" ELSE "leaf"]
    ELSE PyNone

NoWidgetCall ==
    [method |-> "", label |-> "", widget_id |-> "", error |-> "", ret |-> PyNone,
     value |-> PyNone, ui_value |-> PyNone, dg |-> 1, run |-> 1]

\* History: what identifies a widget call.
CallOf(w) ==
    [method |-> w.method, label |-> w.label, widget_id |-> w.widget_id,
     error |-> w.error, dg |-> w.dg, run |-> w.run]

\* get_report_ctx() (line 126): the context of a script run by a report thread,
\* with its widget store; present is FALSE for a script run without one.
WidgetInitNoCtx ==
    /\ ctx = [widgets |-> <<>>, run |-> 1, present |-> FALSE]
    /\ wlast = NoWidgetCall
    /\ wprev = CallOf(NoWidgetCall)

WidgetInit ==
    /\ ctx = [widgets |-> <<>>, run |-> 1, present |-> TRUE]
    /\ wlast = NoWidgetCall
    /\ wprev = CallOf(NoWidgetCall)

\* A widget method called on handle i (the wrapper of _widget, lines 113-138,
\* run as the marshaller of _enqueue_new_element_delta): without label it raises
\* TypeError; otherwise it computes the widget id, reads the stored value when
\* the thread has a report context, and returns what the method returns.
WidgetCall(i, method, has_label, label, value, msg_was_enqueued) ==
    LET widget_id == WidgetId(method, label)
        ui_value == IF ctx.present THEN GetWidgetValue(ctx.widgets, widget_id) ELSE PyNone
        ret == WidgetReturn(method, ui_value, value)
    IN /\ wprev' = IF wlast.error = "" THEN CallOf(wlast) ELSE wprev
       /\ UNCHANGED ctx
       /\ IF ~has_label
          THEN /\ EnqueueNewElementDelta(i, method, Raises, msg_was_enqueued, FALSE)
               /\ wlast' = [method |-> method, label |-> "", widget_id |-> "",
                            error |-> "TypeError", ret |-> PyNone,
                            value |-> PyNone, ui_value |-> PyNone, dg |-> i, run |-> ctx.run]
          ELSE /\ EnqueueNewElementDelta(i, method, MarshallReturn(ret), msg_was_enqueued, FALSE)
               /\ wlast' = [method |-> method, label |-> label, widget_id |-> widget_id,
                            error |-> "", ret |-> Received(last', ret, i), value |-> value,
                            ui_value |-> ui_value, dg |-> i, run |-> ctx.run]

\* Between two runs the remote side submits a value for the widget it was last
\* shown.
RemoteSubmits(ui_value) ==
    /\ ctx.present
    /\ wlast.error = "" /\ wlast.widget_id /= ""
    /\ ui_value \in UiValues(wlast.method)
    /\ Cardinality(DOMAIN ctx.widgets \cup {wlast.widget_id}) <= MaxWidgets
    /\ ctx' = [ctx EXCEPT !.widgets =
                  [w \in DOMAIN @ \cup {wlast.widget_id} |->
                      IF w = wlast.widget_id THEN ui_value ELSE @[w]]]
    /\ UNCHANGED <<gvars, wlast, wprev>>

\* The script is run again: the top-level root is reset.
Rerun ==
    /\ ctx.run < MaxRuns
    /\ Reset(1)
    /\ ctx' = [ctx EXCEPT !.run = @ + 1]
    /\ UNCHANGED <<wlast, wprev>>

WidgetNext ==
    \/ \E i \in Handles, method \in WidgetMethods, has_label \in BOOLEAN, label \in Labels :
          \E value \in WidgetDefaults(method) :
              WidgetCall(i, method, has_label, label, value, TRUE)
    \/ \E ui_value \in {PyTrue, PyFalse, PyStr("b"), PyIndexOf(1)} : RemoteSubmits(ui_value)
    \/ Rerun

\* util.get_external_ip / util.get_internal_ip answer with one of these.
Ips == {"10.0.0.1", "192.168.0.1"}

\* A JSON value that may be null: <<>> is Python's None, <<v>> is v.
Null == <<>>
Some(v) == <<v>>

\* ------------------------------------------------- widget bodies, as calls
NoCall == [fn |-> "none"]

\* Python's sequence indexing options[k]: a negative k counts from the end;
\* "IndexError" stands for the exception.
PyIndex(options, k) ==
    IF 0 <= k /\ k < Len(options) THEN options[k + 1]
    ELSE IF -Len(options) <= k /\ k < 0 THEN options[Len(options) + k + 1]
    ELSE "IndexError"

\* The option lists, index arguments and stored indices the script and the
\* remote side give radio and selectbox.
OptionLists == {<<>>, <<"a">>, <<"a", "b">>}
IndexArgs == (-1)..2
StoredIndices == {Null} \cup {Some(k) : k \in (-1)..2}

\* radio, lines 1435-1448, and selectbox, lines 1482-1497: the same body.
IndexOutOfRange(options, index) ==
    Len(options) /= 0 /\ ~(0 <= index /\ index < Len(options))

SelectReturn(options, current_value) ==
    IF Len(options) /= 0 THEN PyIndex(options, current_value) ELSE NoValue

Select(method, options, index, ui_value) ==
    LET current_value == IF ui_value /= Null THEN ui_value[1] ELSE index
        ret == SelectReturn(options, current_value)
        args == [options |-> options, index |-> index, ui_value |-> ui_value]
    IN call' =
         IF IndexOutOfRange(options, index)
         THEN [fn |-> method, args |-> args, error |-> "ValueError", ret |-> NoValue]
         ELSE IF ret = "IndexError"
         THEN [fn |-> method, args |-> args, error |-> "IndexError", ret |-> NoValue]
         ELSE [fn |-> method, args |-> args, error |-> "", ret |-> ret]

\* Python numbers: an int or a float of value n.
PyInt(n) == [t |-> "int", n |-> n]
PyFloat(n) == [t |-> "float", n |-> n]

PyTuple(items) == [t |-> "tuple", items |-> items]

\* The arguments the script gives slider: None (Null), a number, or a tuple.
SliderBounds == {Null, Some(PyInt(0)), Some(PyInt(10)), Some(PyFloat(0))}
SliderMaxima == {Null, Some(PyInt(60)), Some(PyInt(5))}
SliderNumbers == {PyInt(-1), PyInt(0), PyInt(10), PyInt(50), PyInt(100), PyInt(101), PyFloat(1)}
SliderValues ==
    {Null} \cup {<<n>> : n \in SliderNumbers}
           \cup {<<PyTuple(<<a, b>>)>> : a, b \in {PyInt(0), PyInt(20), PyInt(70), PyFloat(0)}}
           \cup {<<PyTuple(<<PyInt(20)>>)>>}

IsNumber(value) == value.t \in {"int", "float"}
AllOf(type, numbers) == \A k \in DOMAIN numbers : numbers[k].t = type

\* slider, lines 1599-1626: min_value <= value <= max_value, or
\* min_value <= start <= end <= max_value.
SliderInRangeUpperOnly(single_value, value, min_value, max_value) ==
    IF single_value THEN value.n <= max_value.n
    ELSE value.items[1].n <= value.items[2].n /\ value.items[2].n <= max_value.n
SliderInRange(single_value, value, min_value, max_value) ==
    IF single_value
    THEN min_value.n <= value.n /\ value.n <= max_value.n
    ELSE /\ min_value.n <= value.items[1].n /\ value.items[1].n <= value.items[2].n
         /\ value.items[2].n <= max_value.n

\* slider, lines 1549-1648, with no stored value and no step argument.
Slider(min_arg, max_arg, value_arg) ==
    LET value == IF value_arg /= Null THEN value_arg[1]
                 ELSE IF min_arg /= Null THEN min_arg[1] ELSE PyInt(0)
        single_value == IsNumber(value)
        range_value == value.t = "tuple" /\ Len(value.items) = 2
        int_value == IF single_value THEN value.t = "int" ELSE AllOf("int", value.items)
        float_value == IF single_value THEN value.t = "float" ELSE AllOf("float", value.items)
        min_value == IF min_arg /= Null THEN min_arg[1]
                     ELSE IF int_value THEN PyInt(0) ELSE PyFloat(0)
        max_value == IF max_arg /= Null THEN max_arg[1]
                     ELSE IF int_value THEN PyInt(100) ELSE PyFloat(1)
        step == IF int_value THEN PyInt(1) ELSE PyFloat(0)
        slider_args == <<min_value, max_value, step>>
        int_args == AllOf("int", slider_args)
        float_args == AllOf("float", slider_args)
        all_ints == int_value /\ int_args
        all_floats == float_value /\ float_args
        args == [min_value |-> min_arg, max_value |-> max_arg, value |-> value_arg,
                 min |-> min_value, max |-> max_value]
        error == IF ~single_value /\ ~range_value THEN "ValueError"
                 ELSE IF ~int_value /\ ~float_value THEN "TypeError"
                 ELSE IF ~int_args /\ ~float_args THEN "TypeError"
                 ELSE IF ~all_ints /\ ~all_floats THEN "TypeError"
                 ELSE IF ~SliderInRange(single_value, value, min_value, max_value)
                 THEN "ValueError"
                 ELSE ""
    IN call' = [fn |-> "slider", args |-> args, error |-> error,
                ret |-> IF error = "" THEN Some(value) ELSE Null]

\* Report.get_url with _get_browser_address_bar_port (Report.py, lines 53-54 and
\* 319-330).
BrowserAddressBarPort(development_mode, use_node) ==
    IF development_mode /\ use_node THEN 3000 ELSE config.serverPort

GetUrl(host_ip, port) == "http://" \o host_ip \o ":" \o ToString(port)

\* bootstrap._print_url, lines 107-123: the named URLs it prints.
NamedUrlsHeadlessFirst(manually_set, headless, internal_ip, external_ip, port) ==
    IF headless
    THEN << <<"Network URL", GetUrl(internal_ip, port)>>,
            <<"External URL", GetUrl(external_ip, port)>> >>
    ELSE IF manually_set
    THEN << <<"URL", GetUrl(config.serverAddress, port)>> >>
    ELSE << <<"Local URL", GetUrl("localhost", port)>>,
            <<"Network URL", GetUrl(internal_ip, port)>> >>
NamedUrls(manually_set, headless, internal_ip, external_ip, port) ==
    IF manually_set
    THEN << <<"URL", GetUrl(config.serverAddress, port)>> >>
    ELSE IF headless
    THEN << <<"Network URL", GetUrl(internal_ip, port)>>,
            <<"External URL", GetUrl(external_ip, port)>> >>
    ELSE << <<"Local URL", GetUrl("localhost", port)>>,
            <<"Network URL", GetUrl(internal_ip, port)>> >>

\* bootstrap._print_url(): browser.serverAddress is manually set or not,
\* server.headless, global.developmentMode and global.useNode have the values
\* given; util.get_internal_ip() and util.get_external_ip() answer the addresses
\* given.
PrintUrl(manually_set, headless, development_mode, use_node, internal_ip, external_ip) ==
    LET port == BrowserAddressBarPort(development_mode, use_node)
    IN /\ manually_set \/ config.serverAddress = "localhost"
       /\ call' = [fn |-> "_print_url",
                   args |-> [manually_set |-> manually_set, headless |-> headless,
                             internal_ip |-> internal_ip, external_ip |-> external_ip,
                             port |-> port],
                   error |-> "",
                   ret |-> NamedUrls(manually_set, headless, internal_ip, external_ip, port)]

CallNext ==
    \/ \E method \in {"radio", "selectbox"}, options \in OptionLists, index \in IndexArgs,
          ui_value \in StoredIndices : Select(method, options, index, ui_value)
    \/ \E min_arg \in SliderBounds, max_arg \in SliderMaxima, value_arg \in SliderValues :
          Slider(min_arg, max_arg, value_arg)
    \/ \E manually_set, headless, development_mode, use_node \in BOOLEAN,
          internal_ip, external_ip \in Ips :
          PrintUrl(manually_set, headless, development_mode, use_node, internal_ip, external_ip)

\* --------------------------------------------------------------- bootstrap
\* bootstrap.py, line 35: seconds to wait for a browser before opening one.
BROWSER_WAIT_TIMEOUT_SEC == 1

\* Before bootstrap: no server started, no timer, the io loop's clock at 0.
NoBoot ==
    [started |-> FALSE, now |-> 0, timer |-> "none", due |-> 0, headless |-> FALSE,
     manually_set |-> FALSE, development_mode |-> FALSE, use_node |-> FALSE,
     connected |-> FALSE, opened |-> <<>>]

\* maybe_open_browser, lines 80-88: the two early returns.
ShouldOpenIgnoresConnection(headless, browser_is_connected) == ~headless
ShouldOpen(headless, browser_is_connected) == ~headless /\ ~browser_is_connected

\* maybe_open_browser, lines 90-95: the URL handed to util.open_browser.
OpenedUrl(manually_set, development_mode, use_node) ==
    GetUrl(IF manually_set THEN config.serverAddress ELSE "localhost",
           BrowserAddressBarPort(development_mode, use_node))

\* _on_server_start(server): prints the URLs and schedules maybe_open_browser
\* on the io loop, BROWSER_WAIT_TIMEOUT_SEC from now.
OnServerStart(internal_ip, external_ip) ==
    /\ ~boot.started
    /\ PrintUrl(boot.manually_set, boot.headless, boot.development_mode, boot.use_node,
                internal_ip, external_ip)
    /\ boot' = [boot EXCEPT !.started = TRUE, !.timer = "pending",
                            !.due = boot.now + BROWSER_WAIT_TIMEOUT_SEC]

\* The io loop's clock advances by a second.
Tick ==
    /\ boot.now < MaxNow
    /\ boot' = [boot EXCEPT !.now = @ + 1]
    /\ UNCHANGED call

\* The io loop runs maybe_open_browser, at or after the time call_later was
\* given.
MaybeOpenBrowser ==
    /\ boot.timer = "pending"
    /\ boot.now >= boot.due
    /\ boot' = [boot EXCEPT
                  !.timer = "fired",
                  !.opened = IF ShouldOpen(boot.headless, boot.connected)
                             THEN Append(@, [url |-> OpenedUrl(boot.manually_set, boot.development_mode, boot.use_node),
                                             at |-> boot.now])
                             ELSE @]
    /\ UNCHANGED call

\* server.browser_is_connected, read at line 84: a browser connects to the
\* started server, or the connected one goes away.
BrowserConnects ==
    /\ boot.started /\ ~boot.connected
    /\ boot' = [boot EXCEPT !.connected = TRUE]
    /\ UNCHANGED call

BrowserDisconnects ==
    /\ boot.connected
    /\ boot' = [boot EXCEPT !.connected = FALSE]
    /\ UNCHANGED call

\* config.set_option("server.headless", value), read at line 80.
SetHeadless(value) ==
    /\ boot.headless /= value
    /\ boot' = [boot EXCEPT !.headless = value]
    /\ UNCHANGED call

BootNext ==
    \/ \E internal_ip, external_ip \in Ips : OnServerStart(internal_ip, external_ip)
    \/ Tick
    \/ MaybeOpenBrowser
    \/ BrowserConnects
    \/ BrowserDisconnects
    \/ \E value \in BOOLEAN : SetHeadless(value)

\* ----------------------------------------------------------- ReportQueue
\* streamlit.ReportQueue: an ordered buffer of envelopes and the first envelope
\* it was ever given.
ReportQueue == [msgs |-> <<>>, initial |-> NoMsg]

IsDelta(msg) == msg.type = "delta"

\* Two envelopes that address the same element.
SameAddress(a, b) == IsDelta(a) /\ IsDelta(b) /\ Address(a) = Address(b)

\* ReportQueue.enqueue: a Delta for an address that is still queued replaces the
\* queued one (last write wins), anything else is appended.
QueueEnqueue(q, msg) ==
    LET hits == {k \in 1..Len(q.msgs) : SameAddress(q.msgs[k], msg)}
        first == IF q.initial = NoMsg THEN msg ELSE q.initial
    IN IF hits = {}
       THEN [msgs |-> Append(q.msgs, msg), initial |-> first]
       ELSE [msgs |-> [k \in 1..Len(q.msgs) |-> IF k \in hits THEN msg ELSE q.msgs[k]],
             initial |-> first]

\* ReportQueue.flush: the content, and the queue left empty, in one exchange.
QueueFlush(q) == [returned |-> q.msgs, queue |-> [q EXCEPT !.msgs = <<>>]]

\* ReportQueue.clear.
QueueClear(q) == [q EXCEPT !.msgs = <<>>]

\* ReportQueue.get_initial_msg: the first envelope ever enqueued, or none.
QueueGetInitialMsg(q) == q.initial

\* ---------------------------------------------------------------- Report
\* An envelope as Report sees it; serial numbers the Report.enqueue calls (history).
ForwardMsg(type, delta, element, container, path, delta_id) ==
    [type |-> type, delta |-> delta, element |-> element, name |-> "", has_name |-> FALSE,
     container |-> container, path |-> path, delta_id |-> delta_id, serial |-> 0]

Initialize == ForwardMsg("initialize", None, None, MAIN, <<>>, 0)
NewReport == ForwardMsg("new_report", None, None, MAIN, <<>>, 0)
UploadReportProgress == ForwardMsg("upload_report_progress", None, None, MAIN, <<>>, 0)

\* The envelopes the script thread hands to Report.enqueue in SessionSpec.
SessionMsgs ==
    { Initialize,
      ForwardMsg("delta", "new_element", "text", MAIN, <<>>, 0),
      ForwardMsg("delta", "add_rows", "data", MAIN, <<>>, 0),
      ForwardMsg("delta", "new_element", "text", MAIN, <<>>, 1),
      ForwardMsg("delta", "new_element", "text", SIDEBAR, <<>>, 0),
      ForwardMsg("delta", "new_element", "text", MAIN, <<0>>, 0) }

\* Report.enqueue, line 119.
EnqueueMasterKeepsFirst(q, msg) ==
    IF \E k \in 1..Len(q.msgs) : SameAddress(q.msgs[k], msg) THEN q ELSE QueueEnqueue(q, msg)

EnqueueMaster(q, msg) == QueueEnqueue(q, msg)

\* Report.enqueue, line 120.
EnqueueBrowserInFront(q, msg) == [q EXCEPT !.msgs = <<msg>> \o @]
EnqueueBrowserUncoalesced(q, msg) == [q EXCEPT !.msgs = Append(@, msg)]

EnqueueBrowser(q, msg) == QueueEnqueue(q, msg)

\* Report.clear, lines 125-128: the master queue afterwards.
ClearMasterDropsInitial(q) == QueueClear(q)

ClearMaster(q) ==
    LET initial_msg == QueueGetInitialMsg(q)
    IN IF initial_msg /= NoMsg
       THEN QueueEnqueue(QueueClear(q), initial_msg)
       ELSE QueueClear(q)

\* Report.clear, line 130: the browser queue afterwards.
ClearBrowser(q) == QueueClear(q)

\* Report.flush_browser_queue, line 147.
FlushKeepsQueue(q) == [returned |-> q.msgs, queue |-> q]
FlushLeavesLast(q) ==
    [returned |-> q.msgs,
     queue |-> [q EXCEPT !.msgs = IF @ = <<>> THEN <<>> ELSE <<@[Len(@)]>>]]
FlushBrowserQueue(q) == QueueFlush(q)

\* History: the serial whose queue position msg takes when it is enqueued in q.
SlotAfter(slot, q, msg) ==
    LET hits == {k \in 1..Len(q.msgs) : SameAddress(q.msgs[k], msg)}
    IN IF hits = {} THEN slot @@ (msg.serial :> msg.serial)
       ELSE slot @@ (msg.serial :> slot[q.msgs[CHOOSE k \in hits : TRUE].serial])

NoExport ==
    [done |-> FALSE, status |-> None, messages |-> <<>>, num_deltas |-> 0,
     first_delta_index |-> 0, files |-> <<>>]

\* Report.generate_new_id draws report_id from these.
ReportIds == {"idA", "idB"}

\* config.get_option: "browser.serverAddress" (default "localhost") and
\* "browser.serverPort" (default: server.port, 8501).
DefaultConfig == [serverAddress |-> "localhost", serverPort |-> 8501]
Configs == {DefaultConfig, [serverAddress |-> "example.com", serverPort |-> 80]}

SessionInit ==
    /\ master = ReportQueue
    /\ browser = ReportQueue
    /\ pc = "idle"
    /\ pending = NoMsg
    /\ delivered = <<>>
    /\ log = <<>>
    /\ cleared = FALSE
    /\ mslot = <<>>
    /\ bslot = <<>>

\* Report.enqueue(msg), first statement: the script thread puts msg in the
\* master queue.
ReportEnqueueMaster(msg) ==
    LET m == [msg EXCEPT !.serial = Len(log) + 1]
    IN /\ pc = "idle"
       /\ Len(log) < MaxEnqueues
       /\ master' = EnqueueMaster(master, m)
       /\ mslot' = SlotAfter(mslot, master, m)
       /\ pending' = m
       /\ pc' = "enqueue_browser"
       /\ UNCHANGED <<browser, delivered, log, cleared, bslot>>

\* Report.enqueue(msg), second statement: the script thread puts msg in the
\* browser queue, and the call returns.
ReportEnqueueBrowser ==
    /\ pc = "enqueue_browser"
    /\ browser' = EnqueueBrowser(browser, pending)
    /\ bslot' = SlotAfter(bslot, browser, pending)
    /\ log' = Append(log, pending)
    /\ pending' = NoMsg
    /\ pc' = "idle"
    /\ UNCHANGED <<master, delivered, cleared, mslot>>

\* Report.flush_browser_queue(), called by the server's delivery task at any
\* moment, also between the two statements of Report.enqueue.
ReportFlushBrowserQueue ==
    LET r == FlushBrowserQueue(browser)
    IN /\ delivered' = delivered \o r.returned
       /\ browser' = r.queue
       /\ UNCHANGED <<master, pc, pending, log, cleared, mslot, bslot>>

\* Report.clear(), called by the script thread's side between two enqueue calls.
ReportClear ==
    /\ pc = "idle"
    /\ master' = ClearMaster(master)
    /\ browser' = ClearBrowser(browser)
    /\ cleared' = TRUE
    /\ UNCHANGED <<pc, pending, delivered, log, mslot, bslot>>

\* _should_save_report_msg, lines 304-316.
ShouldSaveKeepsEmpty(msg) ==
    msg.type = "initialize" \/ msg.type = "new_report" \/ msg.type = "delta"
ShouldSaveReportMsg(msg) ==
    IF msg.type = "delta" /\ msg.delta = "new_element" /\ msg.element = "empty"
    THEN FALSE
    ELSE msg.type = "initialize" \/ msg.type = "new_report" \/ msg.type = "delta"

\* serialize_final_report_to_files, lines 191-195: copies of the master
\* messages worth saving.
SavedMessages(q) == SelectSeq(q.msgs, ShouldSaveReportMsg)

\* serialize_final_report_to_files, lines 197-204: the loop that renumbers the
\* deltas of the copies; num_deltas at index idx is the number of deltas before it.
DeltasBefore(messages, idx) == Cardinality({j \in 1..(idx - 1) : IsDelta(messages[j])})

Renumbered(messages) ==
    [idx \in 1..Len(messages) |->
        IF IsDelta(messages[idx])
        THEN [messages[idx] EXCEPT !.delta_id = DeltasBefore(messages, idx)]
        ELSE messages[idx]]

NumDeltas(messages) == DeltasBefore(messages, Len(messages) + 1)

\* serialize_final_report_to_files, lines 191-195: the loop works on
\* copy.deepcopy(msg), the master queue keeps its own messages.
MasterAfterExportInPlace(q) == [q EXCEPT !.msgs = Renumbered(@)]
MasterAfterExport(q) == q

\* first_delta_index: the 0-based index of the first delta, 0 when there is none.
FirstDeltaIndex(messages) ==
    LET deltas == {idx \in 1..Len(messages) : IsDelta(messages[idx])}
    IN IF deltas = {} THEN 0
       ELSE (CHOOSE idx \in deltas : \A j \in deltas : idx <= j) - 1

\* Report._build_manifest, lines 274-292.
BuildManifestKeepsAddress(status, num_messages, first_delta_index, num_deltas, external_server_ip, internal_server_ip) ==
    [name |-> "script", numMessages |-> num_messages,
     firstDeltaIndex |-> first_delta_index, numDeltas |-> num_deltas,
     serverStatus |-> status,
     configuredServerAddress |-> Some(config.serverAddress),
     externalServerIP |-> external_server_ip, internalServerIP |-> internal_server_ip,
     serverPort |-> config.serverPort]

BuildManifest(status, num_messages, first_delta_index, num_deltas, external_server_ip, internal_server_ip) ==
    [name |-> "script", numMessages |-> num_messages,
     firstDeltaIndex |-> first_delta_index, numDeltas |-> num_deltas,
     serverStatus |-> status,
     configuredServerAddress |-> IF status = "running" THEN Some(config.serverAddress) ELSE Null,
     externalServerIP |-> external_server_ip, internalServerIP |-> internal_server_ip,
     serverPort |-> config.serverPort]

\* "reports/%(id)s/%(idx)s.pb" and "reports/%s/manifest.json".
MessageLocation(id, msg_idx) == "reports/" \o id \o "/" \o ToString(msg_idx) \o ".pb"
ManifestLocation(id) == "reports/" \o id \o "/manifest.json"

\* One (location, bytes) tuple: msg.SerializeToString() or the manifest's JSON.
MessageTuple(id, msg_idx, msg) ==
    [key |-> MessageLocation(id, msg_idx), kind |-> "pb", body |-> msg]
ManifestTuple(id, manifest) ==
    [key |-> ManifestLocation(id), kind |-> "json", body |-> manifest]

\* serialize_final_report_to_files, lines 216-222.
MessageTuples(id, messages) ==
    [k \in 1..Len(messages) |-> MessageTuple(id, k - 1, messages[k])]

\* serialize_final_report_to_files, line 230.
ManifestFirst(message_tuples, manifest_tuples) == manifest_tuples \o message_tuples
ReturnedTuples(message_tuples, manifest_tuples) == message_tuples \o manifest_tuples

\* Report.serialize_final_report_to_files(), called by the server on a
\* master queue it only reads.
SerializeFinalReportToFiles ==
    LET messages == Renumbered(SavedMessages(master))
        manifest == BuildManifest("done", Some(Len(messages)),
                                  Some(FirstDeltaIndex(messages)),
                                  Some(NumDeltas(messages)), Null, Null)
    IN /\ exported' = [done |-> TRUE, status |-> "done", messages |-> messages,
                       num_deltas |-> NumDeltas(messages),
                       first_delta_index |-> FirstDeltaIndex(messages),
                       files |-> ReturnedTuples(MessageTuples(report_id, messages),
                                                <<ManifestTuple(report_id, manifest)>>)]
       /\ master' = MasterAfterExport(master)
       /\ UNCHANGED <<browser, pc, pending, delivered, log, cleared, mslot, bslot>>
       /\ UNCHANGED <<gvars, rvars, wvars, cvars, bvars>>

\* Report.serialize_running_report_to_files(): util.get_external_ip() answers
\* external_ip and util.get_internal_ip() answers internal_ip.
SerializeRunningReportToFiles(external_ip, internal_ip) ==
    LET manifest == BuildManifest("running", Null, Null, Null,
                                  Some(external_ip), Some(internal_ip))
    IN /\ exported' = [done |-> FALSE, status |-> "running", messages |-> <<>>,
                       num_deltas |-> 0, first_delta_index |-> 0,
                       files |-> <<ManifestTuple(report_id, manifest)>>]
       /\ UNCHANGED <<gvars, svars, rvars, wvars, cvars, bvars>>

\* Report.generate_new_id(): a fresh random id for the next execution.
GenerateNewId ==
    /\ \E id \in ReportIds \ {report_id} : report_id' = id
    /\ UNCHANGED <<gvars, svars, exported, config, wvars, cvars, bvars>>

\* The envelopes found in the master queues that ExportSpec serializes.
ExportMsgs ==
    { Initialize, NewReport, UploadReportProgress,
      ForwardMsg("delta", "new_element", "empty", MAIN, <<>>, 0),
      ForwardMsg("delta", "new_element", "text", MAIN, <<>>, 1),
      ForwardMsg("delta", "new_element", "text", MAIN, <<>>, 2),
      ForwardMsg("delta", "add_rows", "data", MAIN, <<>>, 1),
      ForwardMsg("delta", "new_block", None, SIDEBAR, <<>>, 0) }

\* A master queue as enqueue calls leave it: any envelopes, no two deltas of one
\* address, numbered in the order of their calls.
ExportInit ==
    /\ \E n \in 0..MaxMaster : \E f \in [1..n -> ExportMsgs] :
          /\ \A i, j \in 1..n : i /= j => ~SameAddress(f[i], f[j])
          /\ master = [msgs |-> [k \in 1..n |-> [f[k] EXCEPT !.serial = k]],
                       initial |-> IF n = 0 THEN NoMsg ELSE [f[1] EXCEPT !.serial = 1]]
    /\ browser = ReportQueue
    /\ pc = "idle"
    /\ pending = NoMsg
    /\ delivered = <<>>
    /\ log = <<>>
    /\ cleared = FALSE
    /\ mslot = <<>>
    /\ bslot = <<>>
    /\ exported = NoExport
    /\ report_id \in ReportIds
    /\ config \in Configs
    /\ WidgetInit
    /\ call = NoCall /\ boot = NoBoot
    /\ appended = NoAppended
    /\ dgs = << DeltaGenerator(SINK, 0, TRUE, MAIN, <<>>), DeltaGenerator(None, 0, TRUE, MAIN, <<>>) >>
    /\ origin = [i \in 1..2 |-> Origin("top", 0, NoMsg)]
    /\ run = [i \in 1..2 |-> 0]
    /\ accepting = TRUE
    /\ touched = [i \in 1..2 |-> FALSE]
    /\ span = NoSpan
    /\ last = [op |-> "init", dg |-> 1, msg |-> NoMsg, handed |-> FALSE, was_enqueued |-> FALSE,
               ret |-> Returned(None, 0), error |-> "", first |-> FALSE, args |-> NoArgs,
               rv |-> None, value |-> None, name |-> "", message |-> ""]

ExportNext ==
    \/ SerializeFinalReportToFiles
    \/ \E external_ip, internal_ip \in Ips : SerializeRunningReportToFiles(external_ip, internal_ip)
    \/ GenerateNewId

SessionNext ==
    \/ \E msg \in SessionMsgs : ReportEnqueueMaster(msg)
    \/ ReportEnqueueBrowser
    \/ ReportFlushBrowserQueue
    \/ ReportClear

\* ------------------------------------------------------- specifications
\* The generator and the queues never read the id or the configuration: Spec and
\* SessionSpec hold them at one value.
ReportInit == report_id = "idA" /\ config = DefaultConfig

Init ==
    /\ GeneratorInit /\ SessionInit /\ exported = NoExport /\ ReportInit /\ WidgetInit
    /\ call = NoCall /\ boot = NoBoot

Next == GeneratorNext /\ UNCHANGED <<svars, exported, rvars, wvars, cvars, bvars>>

Spec == Init /\ [][Next]_vars

SessionSpec == Init /\ [][SessionNext /\ UNCHANGED <<gvars, exported, rvars, wvars, cvars, bvars>>]_vars

ExportSpec == ExportInit /\ [][ExportNext]_vars

\* bootstrap: the options as the command line and the configuration file set
\* them, browser.serverAddress being 'localhost' unless it was set.
BootInit ==
    /\ GeneratorInit /\ SessionInit /\ exported = NoExport /\ WidgetInit
    /\ report_id = "idA"
    /\ config \in Configs
    /\ call = NoCall
    /\ \E headless, manually_set, development_mode, use_node \in BOOLEAN :
          /\ manually_set \/ config.serverAddress = "localhost"
          /\ boot = [NoBoot EXCEPT !.headless = headless, !.manually_set = manually_set,
                                   !.development_mode = development_mode, !.use_node = use_node]

BootSpec == BootInit /\ [][BootNext /\ UNCHANGED <<gvars, svars, exported, rvars, wvars>>]_vars

\* The widget methods never read the container: the script of WidgetSpec draws
\* in MAIN.
WidgetSpecInit ==
    /\ GeneratorInit /\ SessionInit /\ exported = NoExport /\ ReportInit
    /\ dgs[1].container = MAIN
    /\ (WidgetInit \/ WidgetInitNoCtx)
    /\ call = NoCall /\ boot = NoBoot

WidgetSpec == WidgetSpecInit /\ [][WidgetNext /\ UNCHANGED <<svars, exported, rvars, cvars, bvars>>]_vars

\* The script nests blocks: it holds up to MaxNestHandles handles, calls
\* elements that return nothing and _block, never _reset; the sink accepts or
\* rejects each envelope.
NestInit ==
    /\ HandlesInit /\ SessionInit /\ exported = NoExport /\ ReportInit /\ WidgetInit
    /\ dgs[1].container = MAIN
    /\ appended = [on |-> TRUE, at |-> {}]
    /\ call = NoCall /\ boot = NoBoot

NestNext ==
    \/ \E i \in Handles, ok, keep \in BOOLEAN :
          dgs[i].id < MaxNestId /\ EnqueueNewElementDelta(i, "text", None, ok, keep)
    \/ \E i \in Handles, ok, keep \in BOOLEAN :
          dgs[i].id < MaxNestId /\ Block(i, ok, keep)

NestSpec == NestInit /\ [][NestNext /\ UNCHANGED <<svars, exported, rvars, wvars, cvars, bvars>>]_vars

CallSpecInit ==
    /\ GeneratorInit /\ SessionInit /\ exported = NoExport /\ WidgetInit
    /\ dgs[1].container = MAIN
    /\ report_id = "idA"
    /\ config \in Configs
    /\ call = NoCall /\ boot = NoBoot

CallSpec == CallSpecInit /\ [][CallNext /\ UNCHANGED <<gvars, svars, exported, rvars, wvars, bvars>>]_vars

\* ------------------------------------------------------------ properties
IsRootWithSink(i) == dgs[i].is_root /\ dgs[i].enqueue /= None
IsElementHandle(i) == origin[i].kind = "element"
IsBlockHandle(i) == origin[i].kind = "block"
\* The most recent call handed an envelope to the sink through handle i.
LastSentVia(i, ops) == last.dg = i /\ last.handed /\ last.op \in ops
\* ... and the sink enqueued it.
LastEnqueuedVia(i, ops) == LastSentVia(i, ops) /\ last.was_enqueued

\* C1: while the sink accepts every envelope, the k-th new_element/_block call
\* made on a root since its counter was 0 carries delta_id k-1, and the counter
\* equals the number of calls made.
C1_AddressMonotonicity ==
    accepting =>
        \A i \in Handles : IsRootWithSink(i) =>
            /\ dgs[i].id = run[i]
            /\ LastSentVia(i, {"new_element", "block"}) => last.msg.delta_id = run[i] - 1

C1_Witness ==
    /\ accepting
    /\ LastSentVia(1, {"new_element"})
    /\ run[1] = 3
    /\ last.msg.delta_id = 2
    /\ \E h \in Handles : IsBlockHandle(h) /\ origin[h].parent = 1
                              /\ origin[h].address.delta_id < 2

\* C2: the handle returned by new_element on a root carries the delta_id of the
\* envelope just enqueued, and every later update or add_rows through that
\* handle is addressed to that same delta_id.
C2_LeafPinning ==
    /\ (last.op = "new_element" /\ last.was_enqueued /\ IsRootWithSink(last.dg)
            /\ last.ret.kind = "dg" /\ last.ret.dg /= 0)
         => dgs[last.ret.dg].id = last.msg.delta_id
    /\ \A h \in Handles :
         (IsElementHandle(h) /\ LastEnqueuedVia(h, {"new_element", "add_rows"}))
            => last.msg.delta_id = origin[h].address.delta_id

\* C3: every envelope sent through a leaf-bound handle carries the container and
\* the path of the NewElement envelope that created the handle.
C3_LeafKeepsContainerAndPath ==
    \A h \in Handles :
        (IsElementHandle(h) /\ LastEnqueuedVia(h, {"new_element", "add_rows"}))
            => /\ last.msg.container = origin[h].address.container
               /\ last.msg.path = origin[h].address.path

\* C4: _block on a root with a sink at (c, p, n) hands the sink one NewBlock
\* envelope addressed (c, p, n), leaves the root at n+1 and returns a new root
\* handle at container c, path p+(n,), counter 0; the first envelope issued
\* through that handle is addressed (c, p+(n,), 0).
C4_BlockNesting ==
    /\ (last.op = "block" /\ IsRootWithSink(last.dg)) =>
          LET parent == dgs[last.dg]
              n == last.msg.delta_id
          IN /\ last.handed
             /\ last.msg.type = "delta" /\ last.msg.delta = "new_block"
             /\ last.msg.container = parent.container
             /\ last.msg.path = parent.path
             /\ parent.id = n + 1
             /\ last.ret.kind = "dg"
             /\ last.ret.dg /= 0 =>
                  /\ last.ret.dg = Len(dgs)
                  /\ origin[Len(dgs)] = Origin("block", last.dg, last.msg)
                  /\ dgs[Len(dgs)] =
                       DeltaGenerator(SINK, 0, TRUE, parent.container, Append(parent.path, n))
    /\ \A h \in Handles :
          (IsBlockHandle(h) /\ IsRootWithSink(origin[h].parent)
             /\ LastSentVia(h, {"new_element", "block"}))
            => /\ last.msg.container = origin[h].address.container
               /\ last.msg.path = Append(origin[h].address.path, origin[h].address.delta_id)
               /\ last.first => last.msg.delta_id = 0

C4_Witness ==
    /\ last.op = "new_element" /\ last.handed /\ last.first
    /\ IsBlockHandle(last.dg)
    /\ origin[last.dg].parent = 1
    /\ dgs[1].container = MAIN
    /\ origin[last.dg].address = [container |-> MAIN, path |-> <<>>, delta_id |-> 2]
    /\ Address(last.msg) = [container |-> MAIN, path |-> <<2>>, delta_id |-> 0]

\* C13: on a sink-less handle new_element, a widget operation, _block and
\* add_rows hand nothing to any sink and leave the handle's id, path and
\* container as they were, after any sequence of calls; _block and add_rows
\* return the same handle and raise nothing.
C13_NullSinkNoOp ==
    \A h \in Handles : dgs[h].enqueue = None =>
        /\ dgs[h] = DeltaGenerator(None, 0, TRUE, MAIN, <<>>)
        /\ (last.dg = h /\ last.op \in {"new_element", "block", "add_rows"}) =>
              /\ ~last.handed
              /\ last.op \in {"block", "add_rows"} =>
                    last.ret = Returned("dg", h) /\ last.error = ""

\* add_rows on the sink-less handle once the root has issued two envelopes.
C13_Witness ==
    /\ dgs[2].enqueue = None
    /\ last.dg = 2 /\ last.op = "add_rows"
    /\ last.ret = Returned("dg", 2)
    /\ dgs[1].id = 2

\* A step that is an add_rows call on handle i.
AddRowsStepOn(i) == last'.op = "add_rows" /\ last'.dg = i

LastAddRowsOnLeaf ==
    last.op = "add_rows" /\ ~dgs[last.dg].is_root /\ dgs[last.dg].enqueue /= None

LastNumDatasets == NumDatasets(last.args.data, last.args.kwargs)

\* C14: add_rows on a root handle that has a sink raises, hands nothing to the
\* sink and leaves the root's counter (and every other handle) as it was.
C14_AddRowsOnRoot ==
    [][\A i \in Handles : (AddRowsStepOn(i) /\ IsRootWithSink(i)) =>
          /\ last'.error = "AssertionError"
          /\ ~last'.handed
          /\ dgs' = dgs]_vars

C14_Witness ==
    /\ last.op = "add_rows" /\ last.dg = 1 /\ last.args.data = "df" /\ last.args.kwargs = {}
    /\ last.error = "AssertionError" /\ ~last.handed
    /\ dgs[1].id = 2

\* C15: add_rows on a leaf-bound handle given more than one dataset, positional
\* and named together or two named, raises the arity error and hands nothing to
\* the sink.
C15_AddRowsTooMany ==
    (LastAddRowsOnLeaf /\ LastNumDatasets > 1) =>
        last.error = "RuntimeError" /\ ~last.handed

\* C16: add_rows on a leaf-bound handle given no dataset raises the arity error
\* and hands nothing to the sink.
C16_AddRowsNoDataset ==
    (LastAddRowsOnLeaf /\ LastNumDatasets = 0) =>
        last.error = "RuntimeError" /\ ~last.handed

C16_Witness ==
    /\ LastAddRowsOnLeaf /\ LastNumDatasets = 0
    /\ IsElementHandle(last.dg)
    /\ last.error = "RuntimeError"

\* C17: an add_rows call on a leaf-bound handle that raises nothing hands the
\* sink one AddRows envelope at the handle's address, changes no handle (so no
\* id counter, the leaf's or its root's), returns the same handle, and the
\* envelope has name and has_name = TRUE exactly when the dataset was named.
C17_AddRowsFrame ==
    [][\A i \in Handles :
          (AddRowsStepOn(i) /\ ~dgs[i].is_root /\ dgs[i].enqueue /= None /\ last'.error = "") =>
              LET kwargs == last'.args.kwargs
              IN /\ last'.handed
                 /\ last'.msg.type = "delta" /\ last'.msg.delta = "add_rows"
                 /\ Address(last'.msg) =
                       [container |-> dgs[i].container, path |-> dgs[i].path,
                        delta_id |-> dgs[i].id]
                 /\ dgs' = dgs
                 /\ last'.ret = Returned("dg", i)
                 /\ last'.msg.has_name = (kwargs /= {})
                 /\ kwargs /= {} => last'.msg.name \in kwargs
                 /\ kwargs = {} => last'.msg.name = ""]_vars

C17_Witness ==
    /\ LastAddRowsOnLeaf /\ last.error = ""
    /\ last.args = [data |-> None, kwargs |-> {"n2"}]
    /\ last.msg.has_name /\ last.msg.name = "n2"
    /\ IsElementHandle(last.dg)
    /\ dgs[last.dg].id = 1 /\ dgs[origin[last.dg].parent].id = 3

IsTopLevel(i) == origin[i].kind = "top"

\* C18: _reset on the top-level root leaves its counter at 0; while the sink
\* accepts everything the k-th new_element/_block call of every run of the
\* top-level root, the first run or one after a reset, is addressed
\* (container, (), k-1), so a rerun of the same calls gets the same addresses;
\* and over all runs the delta_ids used are those of the longest single run.
C18_ResetReusesAddresses ==
    /\ (last.op = "reset" /\ last.error = "" /\ IsTopLevel(last.dg)) => dgs[last.dg].id = 0
    /\ accepting =>
          /\ \A i \in Handles :
                (IsTopLevel(i) /\ LastSentVia(i, {"new_element", "block"})) =>
                    Address(last.msg) = [container |-> dgs[i].container, path |-> <<>>,
                                         delta_id |-> run[i] - 1]
          /\ span.used = 0..(span.longest - 1)

\* The second call of a rerun reuses delta_id 1 after a first run of three calls.
C18_Witness ==
    /\ accepting
    /\ span.longest = 3 /\ span.used = {0, 1, 2}
    /\ run[1] = 2
    /\ LastSentVia(1, {"new_element", "block"})
    /\ last.msg.delta_id = 1

\* C19: _reset on a handle that is not the top-level root, a leaf-bound handle
\* or a root returned by _block, raises and leaves the handle as it was.
C19_ResetOnlyTopLevel ==
    [][\A i \in Handles :
          (last'.op = "reset" /\ last'.dg = i /\ ~IsTopLevel(i)) =>
              last'.error /= "" /\ dgs' = dgs]_vars

\* C20: the widget id depends on (method, label) only: two widget calls, on any
\* handles and in any runs, get the same id when they have the same method and
\* label, and different ids when they differ in method or in label.
C20_WidgetIdentity ==
    (wlast.error = "" /\ wlast.widget_id /= "" /\ wprev.error = "" /\ wprev.widget_id /= "") =>
        ((wlast.method = wprev.method /\ wlast.label = wprev.label)
            <=> wlast.widget_id = wprev.widget_id)

\* button "Go" on the root in run 1, then on the sink-less handle in run 2.
C20_Witness ==
    /\ wlast.method = "button" /\ wlast.label = "Go" /\ wlast.widget_id = "button-Go"
    /\ wlast.dg = 2 /\ wlast.run = 2
    /\ wprev.method = "button" /\ wprev.label = "Go" /\ wprev.widget_id = "button-Go"
    /\ wprev.dg = 1 /\ wprev.run = 1

\* A step that is a widget call (a call that repeats the two calls before it
\* exactly, on the sink-less handle, changes nothing).
WidgetCallStep == wlast' /= wlast \/ wprev' /= wprev

C24_ErrorLeavesNothing ==
    [][/\ (last'.op = "new_element" /\ last'.error /= "") =>
             ~last'.handed /\ dgs' = dgs
       /\ (/\ last.op = "new_element" /\ last.error /= ""
           /\ last'.op \in {"new_element", "block"} /\ last'.dg = last.dg
           /\ last'.handed) =>
             Address(last'.msg) = [container |-> dgs[last.dg].container,
                                   path |-> dgs[last.dg].path,
                                   delta_id |-> dgs[last.dg].id]]_vars

C24_Witness ==
    /\ last.op = "new_element" /\ last.error = "Exception" /\ ~last.handed
    /\ last.dg = 1 /\ dgs[1].id = 2
    /\ \E h \in Handles : IsElementHandle(h) /\ origin[h].parent = 1 /\ dgs[h].id = 1

\* C25: new_element on a root with a sink: when the sink answers that the
\* envelope was not enqueued the counter is unchanged, no new handle exists, a
\* returned handle is the root itself, and the next new_element on the root
\* carries the same delta_id; when it was enqueued the counter grows by one and
\* the handle returned is a new leaf-bound handle holding the id just used.
C25_RootCountsAfterEnqueue ==
    [][(last'.op = "new_element" /\ last'.handed /\ dgs[last'.dg].is_root) =>
          LET i == last'.dg
          IN /\ last'.msg.delta_id = dgs[i].id
             /\ ~last'.was_enqueued =>
                   /\ dgs' = dgs
                   /\ last'.ret.kind = "dg" => last'.ret.dg = i
             /\ last'.was_enqueued =>
                   /\ dgs'[i].id = dgs[i].id + 1
                   /\ (last'.ret.kind = "dg" /\ last'.ret.dg /= 0) =>
                         /\ last'.ret.dg = Len(dgs) + 1
                         /\ ~dgs'[last'.ret.dg].is_root
                         /\ dgs'[last'.ret.dg].id = dgs[i].id
             /\ (/\ last.op = "new_element" /\ last.handed /\ ~last.was_enqueued
                 /\ last.dg = i) =>
                   last'.msg.delta_id = last.msg.delta_id]_vars

C25_Witness ==
    /\ last.op = "new_element" /\ last.handed /\ ~last.was_enqueued
    /\ last.dg = 1 /\ dgs[1].id = 1 /\ last.msg.delta_id = 1
    /\ last.ret = Returned("dg", 1)
    /\ \E h \in Handles : IsElementHandle(h) /\ origin[h].parent = 1 /\ dgs[h].id = 0

\* The handle a new_element call returned is a new leaf-bound handle: the one
\* just created for the element, or one the script did not keep.
ReturnedNewLeaf ==
    \/ last.ret.dg = 0
    \/ /\ last.ret.dg = Len(dgs) /\ last.ret.dg /= last.dg
       /\ IsElementHandle(last.ret.dg) /\ origin[last.ret.dg].parent = last.dg

\* C26 as stated: NoValue from the marshaller gives the caller None; nothing
\* from the marshaller gives the caller the output handle, a new leaf-bound
\* handle from a root and the handle itself from a leaf-bound handle; any other
\* value reaches the caller unchanged.
C26_ThreeResults ==
    (last.op = "new_element" /\ last.error = "") =>
        /\ last.rv = NoValue => last.ret.kind = None
        /\ last.rv = None =>
              /\ last.ret.kind = "dg"
              /\ IF dgs[last.dg].is_root THEN ReturnedNewLeaf /\ last.ret.dg /= last.dg
                 ELSE last.ret.dg = last.dg
        /\ last.rv \notin {None, NoValue} =>
              last.ret.kind = "value" /\ last.value = last.rv

\* C26, amended: as above, but a root gives the caller a new leaf-bound handle
\* only when it has a sink and the sink answered that the envelope was
\* enqueued; a root without a sink, or whose envelope was not enqueued, gives
\* the caller the root itself.
C26_ResultByCase ==
    (last.op = "new_element" /\ last.error = "") =>
        /\ last.rv = NoValue => last.ret.kind = None
        /\ last.rv = None =>
              /\ last.ret.kind = "dg"
              /\ IF IsRootWithSink(last.dg) /\ last.was_enqueued
                 THEN ReturnedNewLeaf /\ last.ret.dg /= last.dg
                 ELSE last.ret.dg = last.dg
        /\ last.rv \notin {None, NoValue} =>
              last.ret.kind = "value" /\ last.value = last.rv

C26_Witness ==
    /\ last.op = "new_element" /\ last.error = "" /\ last.rv = None
    /\ last.dg = 1 /\ last.handed /\ ~last.was_enqueued
    /\ last.ret = Returned("dg", 1)

\* The container a handle draws in: that of the top-level root it descends from.
RECURSIVE Scope(_)
Scope(h) == IF origin[h].kind = "top" THEN dgs[h].container ELSE Scope(origin[h].parent)

\* C28: calling a name the handle does not define raises AttributeError and
\* hands nothing to the sink; for a callable of the streamlit module the text
\* proposes st.name(), in the st.sidebar wording when the handle draws in the
\* sidebar and in the DeltaGenerator wording otherwise; for any other name it
\* says the name is not a valid command.
C28_NameResolution ==
    [][last'.op = "getattr" =>
          LET name == last'.name
          IN /\ last'.error = "AttributeError" /\ ~last'.handed /\ dgs' = dgs
             /\ last'.message =
                   IF name \notin streamlit_methods
                   THEN "'" \o name \o "()' is not a valid Streamlit command."
                   ELSE IF Scope(last'.dg) = SIDEBAR
                   THEN "Method '" \o name \o "()' does not exist for 'st.sidebar'. Did you mean 'st." \o name \o "()'?"
                   ELSE "Method '" \o name \o "()' does not exist for 'DeltaGenerator' objects. Did you mean 'st." \o name \o "()'?"]_vars

\* C30: every new_element or _block envelope a root hands to the sink adds one
\* to the root's counter when the sink accepts it and nothing when the sink
\* rejects it, so the counter is the number of envelopes accepted since it was 0.
C30_CounterCountsAccepted ==
    [][(last'.op \in {"new_element", "block"} /\ last'.handed /\ dgs[last'.dg].is_root) =>
          dgs'[last'.dg].id = dgs[last'.dg].id + (IF last'.was_enqueued THEN 1 ELSE 0)]_vars

\* C31: no call changes the delta_id a leaf-bound handle is pinned to or makes
\* it a root, and _block on a leaf-bound handle hands no NewBlock envelope to
\* the sink and opens no nested stream.
C31_LeafHasNoBlock ==
    [][\A h \in Handles : ~dgs[h].is_root =>
          /\ dgs'[h].id = dgs[h].id /\ ~dgs'[h].is_root
          /\ (last'.op = "block" /\ last'.dg = h) =>
                ~last'.handed /\ Len(dgs') = Len(dgs)]_vars

\* C32: between two resets no two new_element/_block envelopes that roots
\* handed to the sink and the sink accepted carry the same (container, path,
\* delta_id).
C32_AppendAddressesDistinct ==
    [][(/\ last'.op \in {"new_element", "block"} /\ last'.handed /\ last'.was_enqueued
        /\ dgs[last'.dg].is_root) =>
          \A e \in appended.at : e.root => e.address /= Address(last'.msg)]_vars

\* C33: every envelope the sink accepts whose path is not empty comes after an
\* accepted NewBlock envelope addressed (same container, the path without its
\* last index, that last index).
C33_BlockAnnouncedFirst ==
    [][(last'.handed /\ last'.was_enqueued /\ last'.msg.path /= <<>>) =>
          LET path == last'.msg.path
          IN \E e \in appended.at :
                /\ e.delta = "new_block"
                /\ e.address = [container |-> last'.msg.container,
                                path |-> SubSeq(path, 1, Len(path) - 1),
                                delta_id |-> path[Len(path)]]]_vars

\* C34: add_rows looks at the sink first, then at the root flag, then at the
\* number of datasets: a handle without a sink, root or not, returns itself for
\* any arguments and raises nothing; a root with a sink raises the usage error
\* whatever the datasets, so also when it is given none.
C34_AddRowsCheckOrder ==
    [][\A i \in Handles : AddRowsStepOn(i) =>
          /\ IsNull(dgs[i]) =>
                last'.error = "" /\ last'.ret = Returned("dg", i) /\ ~last'.handed
          /\ IsRootWithSink(i) => last'.error = "AssertionError"]_vars

C34_Witness ==
    /\ last.op = "add_rows" /\ last.dg = 1 /\ IsRootWithSink(1)
    /\ last.args.data = None /\ last.args.kwargs = {}
    /\ last.error = "AssertionError" /\ ~last.handed

\* C35: a widget call on a handle without a sink and the same call (method,
\* label, value, stored value) on a handle with a sink give the script the same
\* value or the same error.
C35_SinkChangesNothing ==
    [][(/\ wlast.method /= "" /\ wlast'.method = wlast.method
        /\ wlast'.label = wlast.label /\ wlast'.value = wlast.value
        /\ wlast'.ui_value = wlast.ui_value
        /\ (wlast'.label = "") = (wlast.error /= "")
        /\ IsNull(dgs[wlast.dg]) /= IsNull(dgs[wlast'.dg])) =>
          wlast'.ret = wlast.ret /\ wlast'.error = wlast.error]_vars

\* ---------------------------------------------------- session properties
\* What the delivery side has been handed, followed by what it will be handed.
Outgoing == delivered \o browser.msgs

Increasing(f) == \A i, j \in DOMAIN f : i < j => f[i] < f[j]
SerialsOf(q) == [k \in 1..Len(q) |-> q[k].serial]
SlotsOf(q, slot) == [k \in 1..Len(q) |-> slot[q[k].serial]]

\* Envelope e of the log is represented in queue content q: q holds e itself, or
\* the later envelope of the same address that took e's place.
Represented(e, q, slot) ==
    \E i \in 1..Len(q) :
        \/ q[i] = e
        \/ /\ SameAddress(q[i], e)
           /\ q[i].serial > e.serial
           /\ slot[q[i].serial] = slot[e.serial]

\* C5 as stated: the delivery side receives the envelopes in exactly the order of
\* the Report.enqueue calls, and until a clear the master queue is the sequence
\* of enqueued envelopes.
C5_CallOrder ==
    /\ Increasing(SerialsOf(Outgoing))
    /\ (~cleared /\ pc = "idle") => master.msgs = log

\* C5 as amended: an envelope is delivered at the queue position opened by the
\* earliest still-queued envelope of its address; positions are delivered in
\* the order of the calls that opened them, and until a clear the master queue
\* keeps, in that order, the latest envelope of every address.
C5_SlotOrder ==
    /\ Increasing(SlotsOf(Outgoing, bslot))
    /\ Increasing(SlotsOf(master.msgs, mslot))
    /\ \A k \in 1..Len(Outgoing) : bslot[Outgoing[k].serial] <= Outgoing[k].serial
    /\ (~cleared /\ pc = "idle") =>
          /\ \A k \in 1..Len(log) : Represented(log[k], master.msgs, mslot)
          /\ \A i \in 1..Len(master.msgs) : \E k \in 1..Len(log) : log[k] = master.msgs[i]

C5_Witness ==
    /\ ~cleared /\ pc = "idle" /\ Len(log) = 3
    /\ browser.msgs = <<>>
    /\ delivered = <<log[3], log[2]>>
    /\ master.msgs = <<log[3], log[2]>>

\* C6: whatever the interleaving of enqueue and flush, every enqueued envelope is
\* in the flush results or still queued exactly once, itself or as the later
\* envelope of its address that replaced it before a flush; nothing is
\* delivered twice and nothing is delivered that was not enqueued.
C6_NoLossNoDuplicate ==
    /\ \A i, j \in 1..Len(Outgoing) : i /= j => Outgoing[i].serial /= Outgoing[j].serial
    /\ \A i \in 1..Len(Outgoing) : \E k \in 1..Len(log) : log[k] = Outgoing[i]
    /\ ~cleared => \A k \in 1..Len(log) : Represented(log[k], Outgoing, bslot)

C6_Witness ==
    /\ ~cleared /\ pc = "enqueue_browser" /\ Len(log) = 2
    /\ Len(delivered) = 1 /\ Len(browser.msgs) = 1
    /\ pending.serial = 3

\* C7: no observable state has an envelope in one of the two queues that the
\* other queue has not been given.
C7_AtomicEnqueue ==
    /\ \A k \in 1..Len(master.msgs) : master.msgs[k].serial \in DOMAIN bslot
    /\ \A k \in 1..Len(browser.msgs) : browser.msgs[k].serial \in DOMAIN mslot

\* C8: Report.clear leaves the browser queue empty and the master queue holding
\* exactly the first envelope ever enqueued (nothing when none ever was).
C8_ClearKeepsInitial ==
    [][ReportClear =>
          /\ browser'.msgs = <<>>
          /\ master'.msgs = IF log = <<>> THEN <<>> ELSE <<log[1]>>]_vars

C8_Witness ==
    /\ cleared /\ Len(log) = 3
    /\ browser.msgs = <<>>
    /\ master.msgs = <<log[1]>>
    /\ IsDelta(log[1]) /\ SameAddress(log[1], log[2])

\* C9: an enqueued Delta whose address is still queued replaces the queued
\* envelope in place, so a flush returns one envelope per address; an envelope
\* whose address is not queued is appended and replaces nothing.
CoalescedInto(q, q2, msg) ==
    LET hits == {k \in 1..Len(q.msgs) : SameAddress(q.msgs[k], msg)}
    IN IF hits = {}
       THEN q2.msgs = Append(q.msgs, msg)
       ELSE \E k \in hits : hits = {k} /\ q2.msgs = [q.msgs EXCEPT ![k] = msg]

C9_CoalescingByAddress ==
    [][/\ ReportEnqueueBrowser => CoalescedInto(browser, browser', pending)
       /\ (\E msg \in SessionMsgs : ReportEnqueueMaster(msg))
             => CoalescedInto(master, master', pending')
       /\ ReportFlushBrowserQueue =>
             \A i, j \in 1..Len(browser.msgs) :
                 i /= j => ~SameAddress(browser.msgs[i], browser.msgs[j])]_vars

C9_Witness ==
    /\ pc = "idle" /\ Len(log) = 3
    /\ Len(browser.msgs) = 2 /\ Len(master.msgs) = 2
    /\ browser.msgs[1] = log[3] /\ browser.msgs[2] = log[2]
    /\ SameAddress(log[1], log[3])
    /\ log[1].delta /= log[3].delta

\* The addresses of the deltas of a sequence of envelopes, and the envelope that
\* applying the sequence in order leaves at an address.
AddressesOf(q) == {Address(q[k]) : k \in {i \in 1..Len(q) : IsDelta(q[i])}}
FinalAt(q, a) ==
    LET at == {k \in 1..Len(q) : IsDelta(q[k]) /\ Address(q[k]) = a}
    IN q[CHOOSE k \in at : \A j \in at : j <= k]

SameFinalState(sent, record) ==
    /\ AddressesOf(sent) = AddressesOf(record)
    /\ \A a \in AddressesOf(sent) : FinalAt(sent, a) = FinalAt(record, a)

\* C38: as long as no clear occurs, whatever the interleaving of enqueue and
\* flush_browser_queue, applying the flushed batches in order (a later envelope
\* of an address replacing the earlier one) leaves at every address the
\* envelope the master queue holds for it: once every enqueued envelope has
\* been flushed, and at any moment when the envelopes still queued for the
\* browser and the one an enqueue call is still handing over are applied too.
C38_RendererMatchesMaster ==
    ~cleared =>
        /\ (pc = "idle" /\ browser.msgs = <<>>) => SameFinalState(delivered, master.msgs)
        /\ SameFinalState(Outgoing \o (IF pc = "idle" THEN <<>> ELSE <<pending>>), master.msgs)

C38_Witness ==
    /\ ~cleared /\ pc = "idle" /\ browser.msgs = <<>>
    /\ Len(log) = 3 /\ delivered = log
    /\ SameAddress(log[1], log[3]) /\ log[1].delta /= log[3].delta
    /\ ~SameAddress(log[1], log[2])
    /\ master.msgs = <<log[3], log[2]>>

\* ----------------------------------------------------- export properties
\* The master envelopes an export is to keep: Initialize, session start, and
\* every Delta but a NewElement of the empty placeholder.
Durable(msg) ==
    \/ msg.type \in {"initialize", "new_report"}
    \/ IsDelta(msg) /\ ~(msg.delta = "new_element" /\ msg.element = "empty")

\* Position in the master queue of the i-th durable envelope.
DurableAt(i) ==
    CHOOSE k \in 1..Len(master.msgs) :
        /\ Durable(master.msgs[k])
        /\ Cardinality({j \in 1..k : Durable(master.msgs[j])}) = i

\* C10: the final export emits exactly the durable master envelopes, in master
\* order, the deltas among them renumbered 0, 1, ..., k-1 in that order.
C10_ExportFilterRenumber ==
    exported.done =>
        LET out == exported.messages
        IN /\ Len(out) = Cardinality({k \in 1..Len(master.msgs) : Durable(master.msgs[k])})
           /\ \A i \in 1..Len(out) :
                 /\ [out[i] EXCEPT !.delta_id = 0] = [master.msgs[DurableAt(i)] EXCEPT !.delta_id = 0]
                 /\ IsDelta(out[i]) =>
                       out[i].delta_id = Cardinality({j \in 1..(i - 1) : IsDelta(out[j])})

C10_Witness ==
    /\ exported.done
    /\ Len(master.msgs) = 4
    /\ master.msgs[1].type = "initialize"
    /\ master.msgs[2].element = "empty"
    /\ master.msgs[3].element = "text" /\ master.msgs[3].delta_id = 1
    /\ master.msgs[4].element = "text" /\ master.msgs[4].delta_id = 2
    /\ Len(exported.messages) = 3
    /\ exported.messages[2].delta_id = 0 /\ exported.messages[2].serial = 3
    /\ exported.messages[3].delta_id = 1 /\ exported.messages[3].serial = 4

\* C11: every export returns exactly one manifest pair and it is the last one; in
\* the final export the n message pairs come first, the i-th (from 0) stored
\* under reports/<report_id>/<i>.pb and holding the i-th emitted message, and
\* every key of the export embeds the report id current at the call.
ManifestEntries(files) == {k \in 1..Len(files) : files[k].kind = "json"}

ExportShape(e, id) ==
    LET n == Len(e.files) - 1
    IN /\ ManifestEntries(e.files) = {n + 1}
       /\ e.files[n + 1].key = "reports/" \o id \o "/manifest.json"
       /\ e.status = "done" =>
             /\ n = Len(e.messages)
             /\ \A i \in 0..(n - 1) :
                   /\ e.files[i + 1].kind = "pb"
                   /\ e.files[i + 1].key = "reports/" \o id \o "/" \o ToString(i) \o ".pb"
                   /\ e.files[i + 1].body = e.messages[i + 1]

C11_ManifestLastAndKeys ==
    [][/\ SerializeFinalReportToFiles => ExportShape(exported', report_id)
       /\ (\E a, b \in Ips : SerializeRunningReportToFiles(a, b))
             => ExportShape(exported', report_id)]_vars

C11_Witness ==
    /\ exported.status = "done"
    /\ report_id = "idB"
    /\ Len(exported.files) = 4
    /\ exported.files[1].key = "reports/idB/0.pb"
    /\ exported.files[3].key = "reports/idB/2.pb"
    /\ exported.files[4].key = "reports/idB/manifest.json"
    /\ exported.files[4].body.numMessages = <<3>>
    /\ Len(master.msgs) = 4

\* C12: a 'done' manifest carries the message and delta counts and no network
\* address, a 'running' manifest carries the network addresses and no count,
\* both carry the configured port, and the running export is the manifest pair
\* alone.
C12_ManifestFields ==
    exported.status /= None =>
        LET m == exported.files[Len(exported.files)].body
        IN /\ m.serverStatus = exported.status
           /\ m.serverPort = config.serverPort
           /\ exported.status = "done" =>
                 /\ m.numMessages = Some(Len(exported.messages))
                 /\ m.numDeltas = Some(exported.num_deltas)
                 /\ m.firstDeltaIndex /= Null
                 /\ m.externalServerIP = Null /\ m.internalServerIP = Null
                 /\ m.configuredServerAddress = Null
           /\ exported.status = "running" =>
                 /\ m.numMessages = Null /\ m.numDeltas = Null /\ m.firstDeltaIndex = Null
                 /\ m.externalServerIP /= Null /\ m.internalServerIP /= Null
                 /\ m.configuredServerAddress = Some(config.serverAddress)
                 /\ Len(exported.files) = 1

C12_Witness ==
    /\ exported.status = "running"
    /\ Len(master.msgs) = 3
    /\ exported.files[1].body.externalServerIP = <<"10.0.0.1">>
    /\ exported.files[1].body.internalServerIP = <<"192.168.0.1">>
    /\ exported.files[1].body.serverPort = 80

\* C27: flush_browser_queue returns the whole browser queue and leaves it
\* empty, the master queue keeps its content and order, and the browser queue
\* stays empty until Report.enqueue puts an envelope in it.
C27_FlushDrainsBrowserOnly ==
    [][/\ delivered' /= delivered =>
             /\ delivered' = delivered \o browser.msgs
             /\ browser'.msgs = <<>>
             /\ master' = master
       /\ (browser.msgs = <<>> /\ browser'.msgs /= <<>>) =>
             /\ pc = "enqueue_browser" /\ pc' = "idle"
             /\ browser'.msgs = <<pending>>]_vars

C27_Witness ==
    /\ Len(delivered) = 2 /\ browser.msgs = <<>>
    /\ Len(master.msgs) = 2 /\ pc = "idle" /\ ~cleared

\* ------------------------------------------------------- call properties
LastSelect == call.fn \in {"radio", "selectbox"}

\* The index radio and selectbox resolve: the stored value when there is one,
\* the index argument otherwise.
ResolvedIndex ==
    IF call.args.ui_value /= Null THEN call.args.ui_value[1] ELSE call.args.index

InOptions(k) == 0 <= k /\ k < Len(call.args.options)

\* C22: radio and selectbox return the "no value" sentinel, and raise nothing,
\* whenever the resolved index (the stored value when present, the index
\* argument otherwise) is out of range of the options; the empty list is one
\* such case.
C22_NoValueWhenOutOfRange ==
    (LastSelect /\ ~InOptions(ResolvedIndex)) =>
        call.error = "" /\ call.ret = NoValue

\* C23: with integer arguments slider accepts a single default exactly when
\* min_value <= value <= max_value and a two-component default exactly when
\* min_value <= start <= end <= max_value, the bounds defaulting to 0 and 100,
\* and raises the range error otherwise; radio and selectbox with a non-empty
\* options list raise the range error exactly when index is outside
\* 0..len(options)-1.
IsIntArg(arg) == arg = Null \/ arg[1].t = "int"

IsIntDefault(arg) ==
    /\ arg /= Null
    /\ \/ arg[1].t = "int"
       \/ arg[1].t = "tuple" /\ AllOf("int", arg[1].items)

LastIntSlider ==
    /\ call.fn = "slider"
    /\ IsIntArg(call.args.min_value) /\ IsIntArg(call.args.max_value)
    /\ IsIntDefault(call.args.value)

Lower == IF call.args.min_value = Null THEN 0 ELSE call.args.min_value[1].n
Upper == IF call.args.max_value = Null THEN 100 ELSE call.args.max_value[1].n

DefaultInBounds ==
    LET value == call.args.value[1]
    IN IF value.t = "int"
       THEN Lower <= value.n /\ value.n <= Upper
       ELSE /\ Len(value.items) = 2
            /\ Lower <= value.items[1].n /\ value.items[1].n <= value.items[2].n
            /\ value.items[2].n <= Upper

C23_RangeErrors ==
    /\ LastIntSlider =>
          /\ call.error = "" <=> DefaultInBounds
          /\ call.error \in {"", "ValueError"}
    /\ (LastSelect /\ Len(call.args.options) /= 0) =>
          (call.error = "ValueError" <=> ~InOptions(call.args.index))

C23_Witness ==
    /\ call.fn = "slider" /\ call.error = "ValueError"
    /\ call.args.min_value = Null /\ call.args.max_value = Null
    /\ call.args.value = Some(PyInt(101))

\* C29: _print_url prints exactly one entry "URL" built from
\* browser.serverAddress when that option is manually set; otherwise
\* "Network URL" (internal address) and "External URL" (external address) when
\* server.headless is true; otherwise "Local URL" (localhost) and "Network URL"
\* (internal address). A manually set address wins over headless mode.
Names(urls) == [k \in DOMAIN urls |-> urls[k][1]]
Targets(urls) == [k \in DOMAIN urls |-> urls[k][2]]
UrlOf(host) == "http://" \o host \o ":" \o ToString(call.args.port)

C29_StartupUrls ==
    call.fn = "_print_url" =>
        /\ call.args.manually_set =>
              /\ Names(call.ret) = <<"URL">>
              /\ Targets(call.ret) = <<UrlOf(config.serverAddress)>>
        /\ (~call.args.manually_set /\ call.args.headless) =>
              /\ Names(call.ret) = <<"Network URL", "External URL">>
              /\ Targets(call.ret) =
                    <<UrlOf(call.args.internal_ip), UrlOf(call.args.external_ip)>>
        /\ (~call.args.manually_set /\ ~call.args.headless) =>
              /\ Names(call.ret) = <<"Local URL", "Network URL">>
              /\ Targets(call.ret) = <<UrlOf("localhost"), UrlOf(call.args.internal_ip)>>

C29_Witness ==
    /\ call.fn = "_print_url" /\ call.args.manually_set /\ call.args.headless
    /\ call.ret = << <<"URL", "http://example.com:80">> >>

\* A step that is a call of serialize_final_report_to_files.
FinalExportStep == exported'.status = "done" /\ report_id' = report_id

\* C36: the final export leaves the master queue as it was, every message with
\* its own delta_id, so a second export of it returns the same messages and an
\* envelope enqueued afterwards replaces or follows the same messages as before.
C36_ExportReadsOnly ==
    [][FinalExportStep =>
          /\ master' = master
          /\ exported'.messages = Renumbered(SavedMessages(master'))
          /\ \A msg \in ExportMsgs : EnqueueMaster(master', msg) = EnqueueMaster(master, msg)]_vars

\* The export gave the second text element delta_id 0 and the master queue
\* still holds it at delta_id 2.
C36_Witness ==
    /\ exported.status = "done" /\ Len(exported.messages) = 1
    /\ Len(master.msgs) = 2
    /\ master.msgs[1].type = "upload_report_progress"
    /\ master.msgs[2].element = "text" /\ master.msgs[2].delta_id = 2
    /\ exported.messages[1].element = "text" /\ exported.messages[1].delta_id = 0

\* The exported messages before index i that append an element or a block to
\* the (container, path) stream of the message at i.
StreamBefore(out, i) ==
    {j \in 1..(i - 1) : /\ IsDelta(out[j]) /\ out[j].delta /= "add_rows"
                        /\ out[j].container = out[i].container
                        /\ out[j].path = out[i].path}

\* C37: in the exported list the delta_id of an element or block is its
\* position within its own (container, path) stream, and an AddRows delta
\* carries the delta_id of the exported element it appends to.
C37_ExportKeepsStreams ==
    exported.done =>
        LET out == exported.messages
        IN \A i \in 1..Len(out) : IsDelta(out[i]) =>
              IF out[i].delta = "add_rows"
              THEN \A j \in 1..Len(out) :
                      (/\ IsDelta(out[j]) /\ out[j].delta /= "add_rows"
                       /\ Address(master.msgs[DurableAt(j)]) = Address(master.msgs[DurableAt(i)]))
                          => out[i].delta_id = out[j].delta_id
              ELSE out[i].delta_id = Cardinality(StreamBefore(out, i))

\* The 1-based positions of the Delta messages of an exported list.
DeltaPositions(out) == {i \in 1..Len(out) : IsDelta(out[i])}

\* C39: in a 'done' manifest numMessages is the number of exported message
\* pairs, numDeltas the number of exported Delta messages, and firstDeltaIndex
\* the 0-based index in the exported list of the first Delta message, whatever
\* the master queue holds, a queue without any Delta included.
C39_ManifestCounts ==
    exported.status = "done" =>
        LET out == exported.messages
            m == exported.files[Len(exported.files)].body
        IN /\ m.numMessages = Some(Len(exported.files) - 1)
           /\ m.numMessages = Some(Len(out))
           /\ m.numDeltas = Some(Cardinality(DeltaPositions(out)))
           /\ \E k \in 0..Len(out) :
                 /\ m.firstDeltaIndex = Some(k)
                 /\ k + 1 \in DeltaPositions(out)
                 /\ \A j \in DeltaPositions(out) : k + 1 <= j

\* ---------------------------------------------------- bootstrap properties
\* C40: after server start a browser is opened automatically at most once; it
\* is opened only by the timer's callback, not before BROWSER_WAIT_TIMEOUT_SEC
\* has passed since the start, and only if at that moment server.headless is
\* false and no browser is connected; a callback that finds a browser connected
\* (or headless mode) opens none, and none is opened later.
C40_OpensBrowserOnce ==
    [][/\ Len(boot'.opened) <= 1
       /\ boot'.opened /= boot.opened =>
             /\ boot.started /\ boot.timer = "pending" /\ boot'.timer = "fired"
             /\ boot.now >= boot.due
             /\ ~boot.headless /\ ~boot.connected
             /\ boot.opened = <<>> /\ Len(boot'.opened) = 1
             /\ boot'.opened[1].at = boot.now
       /\ (boot.timer = "pending" /\ boot'.timer = "fired" /\ (boot.headless \/ boot.connected))
             => boot'.opened = <<>>
       /\ boot.timer = "fired" => (boot'.timer = "fired" /\ boot'.opened = boot.opened)
       /\ (boot.timer = "none" /\ boot'.timer = "pending")
             => boot'.due = boot.now + BROWSER_WAIT_TIMEOUT_SEC]_vars

C40_Witness ==
    /\ boot.timer = "fired"
    /\ Len(boot.opened) = 1
    /\ boot.opened[1].at = boot.due
    /\ boot.opened[1].url = "http://example.com:3000"
    /\ boot.connected /\ boot.headless
    /\ boot.now = MaxNow

====
